---- MODULE Spec2Model ----
(***************************************************************************)
(* Model of privval/ipc_client.go: IPCVal, the client that dials a remote  *)
(* signer over a unix socket, keeps the connection alive with a ping       *)
(* goroutine and reconnects when the ping fails.                           *)
(*                                                                         *)
(* Processes: "start" (the caller of OnStart), "mon" (the goroutine of     *)
(* OnStart, lines 85-136), "stop" (the caller of OnStop), "reader" (a      *)
(* foreground caller that reads sc.conn and sc.RemoteSignerClient under    *)
(* connMtx.RLock), the ticker and the peer.  Every step is one statement   *)
(* (or one blocking call) of the source.                                   *)
(***************************************************************************)
EXTENDS Integers, FiniteSets, Sequences, TLC

\* Number of connections the peer accepts in a run (net.DialUnix successes).
MaxConns == 3
\* Number of calls to Stop the hosting process makes.
MaxStops == 2
\* The count of ticks begun after the cancel signal saturates here.
TickCap == 2

Procs == {"start", "mon", "stop", "reader"}

\* sc.conn == nil
NilConn == 0
\* sc.RemoteSignerClient == nil
NilClient == << >>

VARIABLES
  conn,               \* sc.conn: NilConn or the id of a dialled connection
  RemoteSignerClient, \* sc.RemoteSignerClient: NilClient or <<c>>, the client over connection c
  connMtx,            \* sc.connMtx: [w: the holder of Lock or "none", ww: the caller blocked in Lock or "none", r: the holders of RLock]
  cancelPing,         \* sc.cancelPing: "nil", "open" or "closed"
  pingTicker,         \* sc.pingTicker: "nil", "running" or "stopped"
  tickC,              \* sc.pingTicker.C holds a tick (a channel of capacity 1)
  pc,                 \* the position of each process
  lc,                 \* connect()'s local conn, per caller
  err,                \* the local err of OnStart and of the goroutine: "nil", "dial" or "handshake"
  opened,             \* the connections net.DialUnix has returned
  closed,             \* the connections on which Close has been called
  broken,             \* the connections whose peer has gone away
  peerUp,             \* the signer process is listening on addr
  lifecycle,          \* BaseService: "NotStarted", "Running" or "Stopped"
  startRet,           \* what Start returned: "none" (not yet), "ok" or "err"
  stops,              \* the calls to Stop made so far
  crashed,            \* the process has panicked: "no", "nilclient" (nil dereference), "closeclosed" (close of a closed channel) or "closeerr" (a Close error raised)
  obs,                \* the reader's locals: [conn, client], what it read of the pair
  tickConn,           \* history: sc.conn when the current tick was received (line 88)
  tickClient,         \* history: sc.RemoteSignerClient when the current tick was received
  tickRes,            \* history: how the last tick ended: "none", "ok", "violation", "dialfail", "hsfail" or "reconnected"
  ticksAfterCancel,   \* history: ticks received (line 88) after close(sc.cancelPing)
  monitors            \* the goroutines line 85 has started

vars == <<conn, RemoteSignerClient, connMtx, cancelPing, pingTicker, tickC, pc, lc, err,
          opened, closed, broken, peerUp, lifecycle, startRet, stops, crashed, obs,
          tickConn, tickClient, tickRes, ticksAfterCancel, monitors>>

shared == <<conn, RemoteSignerClient>>
timer == <<cancelPing, pingTicker, tickC>>
world == <<opened, closed, broken, peerUp>>
host == <<lifecycle, startRet, stops>>
hist == <<tickConn, tickClient, tickRes, ticksAfterCancel>>

\* The client NewRemoteSignerClient builds over connection c.
ClientOf(c) == << c >>

\* The connection a client talks over.
ConnOf(s) == s[1]

\* A connection on which a request can still get an answer.
Healthy(c) == c \in opened /\ c \notin closed /\ c \notin broken

\* NewRemoteSignerClient(conn): the client over conn when the handshake
\* (the public-key request) is answered, nil with the error otherwise.
NewRemoteSignerClient(c, ok) == IF ok THEN ClientOf(c) ELSE NilClient

Init ==
  /\ conn = NilConn
  /\ RemoteSignerClient = NilClient
  /\ connMtx = [w |-> "none", ww |-> "none", r |-> {}]
  /\ cancelPing = "nil"
  /\ pingTicker = "nil"
  /\ tickC = FALSE
  /\ pc = [p \in Procs |-> IF p = "mon" THEN "none" ELSE "idle"]
  /\ lc = [p \in {"start", "mon"} |-> NilConn]
  /\ err = [p \in {"start", "mon"} |-> "nil"]
  /\ opened = {}
  /\ closed = {}
  /\ broken = {}
  /\ peerUp \in BOOLEAN
  /\ lifecycle = "NotStarted"
  /\ startRet = "none"
  /\ stops = 0
  /\ crashed = "no"
  /\ obs = [conn |-> NilConn, client |-> NilClient]
  /\ tickConn = NilConn
  /\ tickClient = NilClient
  /\ tickRes = "none"
  /\ ticksAfterCancel = 0
  /\ monitors = 0

----------------------------------------------------------------------------
\* sync.RWMutex

\* RLock is granted when no writer holds the lock and none is waiting for it.
CanRLock == connMtx.w = "none" /\ connMtx.ww = "none"

RLock(p) == connMtx' = [connMtx EXCEPT !.r = @ \cup {p}]

RUnlock(p) == connMtx' = [connMtx EXCEPT !.r = @ \ {p}]

----------------------------------------------------------------------------
\* connect(), lines 155-171, called by OnStart (p = "start") and by the
\* goroutine (p = "mon")

\* Lines 156-164, success: ResolveUnixAddr and DialUnix return a connection.
DialOk(p) ==
  /\ crashed = "no"
  /\ pc[p] = "dial"
  /\ peerUp
  /\ Cardinality(opened) < MaxConns
  /\ LET c == Cardinality(opened) + 1 IN
       /\ opened' = opened \cup {c}
       /\ lc' = [lc EXCEPT ![p] = c]
  /\ pc' = [pc EXCEPT ![p] = "lock"]
  /\ UNCHANGED <<shared, connMtx, timer, err, closed, broken, peerUp, host, crashed, obs, hist,
                 monitors>>

\* DialFail with the stale pair torn down when the goroutine's connect fails.
DialFail_TearDown(p) ==
  /\ crashed = "no"
  /\ pc[p] = "dial"
  /\ err' = [err EXCEPT ![p] = "dial"]
  /\ pc' = [pc EXCEPT ![p] = IF p = "start" THEN "return" ELSE "select"]
  /\ tickRes' = IF p = "mon" THEN "dialfail" ELSE tickRes
  /\ conn' = IF p = "mon" THEN NilConn ELSE conn
  /\ RemoteSignerClient' = IF p = "mon" THEN NilClient ELSE RemoteSignerClient
  /\ UNCHANGED <<connMtx, timer, lc, monitors, world, host, crashed, obs,
                 tickConn, tickClient, ticksAfterCancel>>

\* Lines 156-164, failure: connect returns the error before touching sc.conn.
\* OnStart logs and returns it (70-73); the goroutine logs and continues (101-108).
DialFail(p) ==
  /\ crashed = "no"
  /\ pc[p] = "dial"
  /\ err' = [err EXCEPT ![p] = "dial"]
  /\ pc' = [pc EXCEPT ![p] = IF p = "start" THEN "return" ELSE "select"]
  /\ tickRes' = IF p = "mon" THEN "dialfail" ELSE tickRes
  /\ UNCHANGED <<shared, connMtx, timer, lc, monitors, world, host, crashed, obs,
                 tickConn, tickClient, ticksAfterCancel>>

\* Line 166, sc.connMtx.Lock(): the caller announces itself; from now on new
\* RLock calls wait.
ConnLockReq(p) ==
  /\ crashed = "no"
  /\ pc[p] = "lock"
  /\ connMtx.w = "none" /\ connMtx.ww = "none"
  /\ connMtx' = [connMtx EXCEPT !.ww = p]
  /\ pc' = [pc EXCEPT ![p] = "lockwait"]
  /\ UNCHANGED <<shared, timer, lc, monitors, err, world, host, crashed, obs, hist>>

\* Line 166, Lock() returns once the readers have left.
ConnLockAcq(p) ==
  /\ crashed = "no"
  /\ pc[p] = "lockwait"
  /\ connMtx.r = {}
  /\ connMtx' = [connMtx EXCEPT !.ww = "none", !.w = p]
  /\ pc' = [pc EXCEPT ![p] = "assign"]
  /\ UNCHANGED <<shared, timer, lc, monitors, err, world, host, crashed, obs, hist>>

\* Line 168: sc.conn = newTimeoutConn(conn, sc.connTimeout).
ConnAssign(p) ==
  /\ crashed = "no"
  /\ pc[p] = "assign"
  /\ conn' = lc[p]
  /\ pc' = [pc EXCEPT ![p] = "unlock"]
  /\ UNCHANGED <<RemoteSignerClient, connMtx, timer, lc, monitors, err, world, host, crashed, obs, hist>>

\* ConnUnlock without the deferred Unlock: connect returns holding the lock.
ConnUnlock_Forget(p) ==
  /\ crashed = "no"
  /\ pc[p] = "unlock"
  /\ err' = [err EXCEPT ![p] = "nil"]
  /\ pc' = [pc EXCEPT ![p] = "rlock"]
  /\ UNCHANGED <<shared, connMtx, timer, lc, monitors, world, host, crashed, obs, hist>>

\* Lines 167 and 170: the deferred Unlock, and connect returns nil to its caller.
ConnUnlock(p) ==
  /\ crashed = "no"
  /\ pc[p] = "unlock"
  /\ connMtx' = [connMtx EXCEPT !.w = "none"]
  /\ err' = [err EXCEPT ![p] = "nil"]
  /\ pc' = [pc EXCEPT ![p] = "rlock"]
  /\ UNCHANGED <<shared, timer, lc, monitors, world, host, crashed, obs, hist>>

----------------------------------------------------------------------------
\* OnStart, lines 68-139, up to the launch of the goroutine

\* Start is called, once (BaseService.Start calls OnStart); line 69 calls connect.
StartCall ==
  /\ crashed = "no"
  /\ pc["start"] = "idle"
  /\ startRet = "none"
  /\ pc' = [pc EXCEPT !["start"] = "dial"]
  /\ UNCHANGED <<shared, connMtx, timer, lc, monitors, err, world, host, crashed, obs, hist>>

\* Line 75: sc.connMtx.RLock(), released by the deferred RUnlock of line 76.
StartRLock ==
  /\ crashed = "no"
  /\ pc["start"] = "rlock"
  /\ CanRLock
  /\ RLock("start")
  /\ pc' = [pc EXCEPT !["start"] = "handshake"]
  /\ UNCHANGED <<shared, timer, lc, monitors, err, world, host, crashed, obs, hist>>

\* StartHandshake without the return of line 79: the goroutine is launched
\* whatever the handshake gave.
StartHandshake_IgnoreErr ==
  /\ crashed = "no"
  /\ pc["start"] = "handshake"
  /\ \E ok \in BOOLEAN :
       /\ ok => Healthy(conn)
       /\ RemoteSignerClient' = NewRemoteSignerClient(conn, ok)
       /\ err' = [err EXCEPT !["start"] = IF ok THEN "nil" ELSE "handshake"]
       /\ pc' = [pc EXCEPT !["start"] = "launch"]
  /\ UNCHANGED <<conn, connMtx, timer, lc, monitors, world, host, crashed, obs, hist>>

\* Lines 77-80: sc.RemoteSignerClient, err = NewRemoteSignerClient(sc.conn);
\* an error is returned.
StartHandshake ==
  /\ crashed = "no"
  /\ pc["start"] = "handshake"
  /\ \E ok \in BOOLEAN :
       /\ ok => Healthy(conn)
       /\ RemoteSignerClient' = NewRemoteSignerClient(conn, ok)
       /\ err' = [err EXCEPT !["start"] = IF ok THEN "nil" ELSE "handshake"]
       /\ pc' = [pc EXCEPT !["start"] = IF ok THEN "launch" ELSE "return"]
  /\ UNCHANGED <<conn, connMtx, timer, lc, monitors, world, host, crashed, obs, hist>>

\* Lines 83-85: the cancel channel, the ticker, and the goroutine starts.
StartLaunch ==
  /\ crashed = "no"
  /\ pc["start"] = "launch"
  /\ cancelPing' = "open"
  /\ pingTicker' = "running"
  /\ monitors' = monitors + 1
  /\ pc' = [pc EXCEPT !["start"] = "return", !["mon"] = "select"]
  /\ UNCHANGED <<shared, connMtx, tickC, lc, err, world, host, crashed, obs, hist>>

\* Lines 72, 79 and 138: OnStart returns err, releasing the read lock if it
\* holds it (line 76); BaseService is Running when the error is nil.
StartReturn ==
  /\ crashed = "no"
  /\ pc["start"] = "return"
  /\ RUnlock("start")
  /\ startRet' = IF err["start"] = "nil" THEN "ok" ELSE "err"
  /\ lifecycle' = IF err["start"] = "nil" THEN "Running" ELSE lifecycle
  /\ pc' = [pc EXCEPT !["start"] = "done"]
  /\ UNCHANGED <<shared, timer, lc, monitors, err, world, stops, crashed, obs, hist>>

----------------------------------------------------------------------------
\* The goroutine of OnStart, lines 85-136

\* time.Ticker: a tick is put in the channel unless one is already there.
Tick ==
  /\ crashed = "no"
  /\ pingTicker = "running"
  /\ ~tickC
  /\ tickC' = TRUE
  /\ UNCHANGED <<shared, connMtx, cancelPing, pingTicker, pc, lc, monitors, err, world, host, crashed,
                 obs, hist>>

\* Line 88: select receives from sc.pingTicker.C.  When the cancel channel is
\* closed too, select picks either case.
MonTick ==
  /\ crashed = "no"
  /\ pc["mon"] = "select"
  /\ tickC
  /\ tickC' = FALSE
  /\ pc' = [pc EXCEPT !["mon"] = "ping"]
  /\ tickConn' = conn
  /\ tickClient' = RemoteSignerClient
  /\ tickRes' = "none"
  /\ ticksAfterCancel' = IF cancelPing = "closed" /\ ticksAfterCancel < TickCap
                         THEN ticksAfterCancel + 1 ELSE ticksAfterCancel
  /\ UNCHANGED <<shared, connMtx, cancelPing, pingTicker, lc, monitors, err, world, host, crashed, obs>>

\* Lines 131-133: select receives from the closed sc.cancelPing; the ticker
\* is stopped and the goroutine returns.
MonCancel ==
  /\ crashed = "no"
  /\ pc["mon"] = "select"
  /\ cancelPing = "closed"
  /\ pingTicker' = "stopped"
  /\ pc' = [pc EXCEPT !["mon"] = "exited"]
  /\ UNCHANGED <<shared, connMtx, cancelPing, tickC, lc, monitors, err, world, host, crashed, obs, hist>>

\* Line 89, sc.Ping() through a nil sc.RemoteSignerClient: a nil pointer
\* dereference, which panics in the goroutine and ends the process.
MonPingNil ==
  /\ crashed = "no"
  /\ pc["mon"] = "ping"
  /\ RemoteSignerClient = NilClient
  /\ crashed' = "nilclient"
  /\ UNCHANGED <<shared, connMtx, timer, pc, lc, monitors, err, world, host, obs, hist>>

\* Lines 89-90: the ping is answered, err == nil, back to the select.
MonPingOk ==
  /\ crashed = "no"
  /\ pc["mon"] = "ping"
  /\ RemoteSignerClient # NilClient
  /\ Healthy(ConnOf(RemoteSignerClient))
  /\ pc' = [pc EXCEPT !["mon"] = "select"]
  /\ tickRes' = "ok"
  /\ UNCHANGED <<shared, connMtx, timer, lc, monitors, err, world, host, crashed, obs,
                 tickConn, tickClient, ticksAfterCancel>>

\* MonPingUnexpected without the return of line 97: the goroutine reconnects.
MonPingUnexpected_Reconnect ==
  /\ crashed = "no"
  /\ pc["mon"] = "ping"
  /\ RemoteSignerClient # NilClient
  /\ Healthy(ConnOf(RemoteSignerClient))
  /\ pc' = [pc EXCEPT !["mon"] = "dial"]
  /\ tickRes' = "violation"
  /\ UNCHANGED <<shared, connMtx, timer, lc, monitors, err, world, host, crashed, obs,
                 tickConn, tickClient, ticksAfterCancel>>

\* Lines 89-98: the peer answers the ping with another message,
\* err == ErrUnexpectedResponse: the goroutine returns.
MonPingUnexpected ==
  /\ crashed = "no"
  /\ pc["mon"] = "ping"
  /\ RemoteSignerClient # NilClient
  /\ Healthy(ConnOf(RemoteSignerClient))
  /\ pc' = [pc EXCEPT !["mon"] = "exited"]
  /\ tickRes' = "violation"
  /\ UNCHANGED <<shared, connMtx, timer, lc, monitors, err, world, host, crashed, obs,
                 tickConn, tickClient, ticksAfterCancel>>

\* Lines 89-100: any other error of the ping (timeout, reset, closed
\* connection): the goroutine calls connect.
MonPingTransient ==
  /\ crashed = "no"
  /\ pc["mon"] = "ping"
  /\ RemoteSignerClient # NilClient
  /\ pc' = [pc EXCEPT !["mon"] = "dial"]
  /\ UNCHANGED <<shared, connMtx, timer, lc, monitors, err, world, host, crashed, obs, hist>>

\* MonRLock taking the lock exclusively for the handshake.
MonRLock_Exclusive ==
  /\ crashed = "no"
  /\ pc["mon"] = "rlock"
  /\ CanRLock
  /\ connMtx.r = {}
  /\ connMtx' = [connMtx EXCEPT !.w = "mon"]
  /\ pc' = [pc EXCEPT !["mon"] = "handshake"]
  /\ UNCHANGED <<shared, timer, lc, monitors, err, world, host, crashed, obs, hist>>

\* Line 109: sc.connMtx.RLock().
MonRLock ==
  /\ crashed = "no"
  /\ pc["mon"] = "rlock"
  /\ CanRLock
  /\ RLock("mon")
  /\ pc' = [pc EXCEPT !["mon"] = "handshake"]
  /\ UNCHANGED <<shared, timer, lc, monitors, err, world, host, crashed, obs, hist>>

\* MonHandshake with the new client dropped: only err is kept of line 110.
MonHandshake_Discard ==
  /\ crashed = "no"
  /\ pc["mon"] = "handshake"
  /\ \E ok \in BOOLEAN :
       /\ ok => Healthy(conn)
       /\ err' = [err EXCEPT !["mon"] = IF ok THEN "nil" ELSE "handshake"]
  /\ pc' = [pc EXCEPT !["mon"] = "runlock"]
  /\ UNCHANGED <<shared, connMtx, timer, lc, monitors, world, host, crashed, obs, hist>>

\* Line 110: sc.RemoteSignerClient, err = NewRemoteSignerClient(sc.conn).
MonHandshake ==
  /\ crashed = "no"
  /\ pc["mon"] = "handshake"
  /\ \E ok \in BOOLEAN :
       /\ ok => Healthy(conn)
       /\ RemoteSignerClient' = NewRemoteSignerClient(conn, ok)
       /\ err' = [err EXCEPT !["mon"] = IF ok THEN "nil" ELSE "handshake"]
  /\ pc' = [pc EXCEPT !["mon"] = "runlock"]
  /\ UNCHANGED <<conn, connMtx, timer, lc, monitors, world, host, crashed, obs, hist>>

\* MonRUnlock with the keep-alive goroutine started again after a reconnect.
MonRUnlock_Spawn ==
  /\ crashed = "no"
  /\ pc["mon"] = "runlock"
  /\ RUnlock("mon")
  /\ pc' = [pc EXCEPT !["mon"] = IF err["mon"] = "nil" THEN "select" ELSE "rlock2"]
  /\ tickRes' = IF err["mon"] = "nil" THEN "reconnected" ELSE tickRes
  /\ monitors' = IF err["mon"] = "nil" THEN monitors + 1 ELSE monitors
  /\ UNCHANGED <<shared, timer, lc, err, world, host, crashed, obs,
                 tickConn, tickClient, ticksAfterCancel>>

\* MonRUnlock without the RUnlock of line 111: the goroutine keeps the read lock.
MonRUnlock_Forget ==
  /\ crashed = "no"
  /\ pc["mon"] = "runlock"
  /\ pc' = [pc EXCEPT !["mon"] = IF err["mon"] = "nil" THEN "select" ELSE "rlock2"]
  /\ tickRes' = IF err["mon"] = "nil" THEN "reconnected" ELSE tickRes
  /\ UNCHANGED <<shared, connMtx, timer, lc, monitors, err, world, host, crashed, obs,
                 tickConn, tickClient, ticksAfterCancel>>

\* Lines 111-112 and 129: sc.connMtx.RUnlock(); with err == nil the goroutine
\* logs the new connection and goes back to the select.
MonRUnlock ==
  /\ crashed = "no"
  /\ pc["mon"] = "runlock"
  /\ RUnlock("mon")
  /\ pc' = [pc EXCEPT !["mon"] = IF err["mon"] = "nil" THEN "select" ELSE "rlock2"]
  /\ tickRes' = IF err["mon"] = "nil" THEN "reconnected" ELSE tickRes
  /\ UNCHANGED <<shared, timer, lc, monitors, err, world, host, crashed, obs,
                 tickConn, tickClient, ticksAfterCancel>>

\* Line 118: sc.connMtx.RLock() on the handshake-failure path.
MonRLock2 ==
  /\ crashed = "no"
  /\ pc["mon"] = "rlock2"
  /\ CanRLock
  /\ RLock("mon")
  /\ pc' = [pc EXCEPT !["mon"] = "close"]
  /\ UNCHANGED <<shared, timer, lc, monitors, err, world, host, crashed, obs, hist>>

\* Lines 119-125: sc.conn.Close(); an error is logged.
MonClose ==
  /\ crashed = "no"
  /\ pc["mon"] = "close"
  /\ closed' = closed \cup {conn}
  /\ pc' = [pc EXCEPT !["mon"] = "runlock2"]
  /\ UNCHANGED <<shared, connMtx, timer, lc, monitors, err, opened, broken, peerUp, host, crashed, obs,
                 hist>>

\* Lines 126-127: sc.connMtx.RUnlock(); continue.
MonRUnlock2 ==
  /\ crashed = "no"
  /\ pc["mon"] = "runlock2"
  /\ RUnlock("mon")
  /\ pc' = [pc EXCEPT !["mon"] = "select"]
  /\ tickRes' = "hsfail"
  /\ UNCHANGED <<shared, timer, lc, monitors, err, world, host, crashed, obs,
                 tickConn, tickClient, ticksAfterCancel>>

----------------------------------------------------------------------------
\* Stop: BaseService.Stop and OnStop, lines 142-153

\* The first Stop of a running service: BaseService marks it stopped and
\* calls OnStop.
StopCall ==
  /\ crashed = "no"
  /\ pc["stop"] = "idle"
  /\ lifecycle = "Running"
  /\ stops < MaxStops
  /\ lifecycle' = "Stopped"
  /\ stops' = stops + 1
  /\ pc' = [pc EXCEPT !["stop"] = "signal"]
  /\ UNCHANGED <<shared, connMtx, timer, lc, monitors, err, world, startRet, crashed, obs, hist>>

\* A later Stop: BaseService finds the service stopped and returns without
\* calling OnStop.
StopAgain ==
  /\ crashed = "no"
  /\ pc["stop"] = "done"
  /\ lifecycle = "Stopped"
  /\ stops < MaxStops
  /\ stops' = stops + 1
  /\ UNCHANGED <<shared, connMtx, timer, pc, lc, monitors, err, world, lifecycle, startRet, crashed,
                 obs, hist>>

\* Lines 143-145: if sc.cancelPing != nil { close(sc.cancelPing) }; closing a
\* closed channel panics.
StopSignal ==
  /\ crashed = "no"
  /\ pc["stop"] = "signal"
  /\ IF cancelPing = "closed"
     THEN crashed' = "closeclosed" /\ UNCHANGED <<cancelPing, pc>>
     ELSE /\ cancelPing' = IF cancelPing = "nil" THEN "nil" ELSE "closed"
          /\ pc' = [pc EXCEPT !["stop"] = "rlock"]
          /\ UNCHANGED crashed
  /\ UNCHANGED <<shared, connMtx, pingTicker, tickC, lc, monitors, err, world, host, obs, hist>>

\* Line 146: sc.connMtx.RLock(), released by the deferred RUnlock of line 147.
StopRLock ==
  /\ crashed = "no"
  /\ pc["stop"] = "rlock"
  /\ CanRLock
  /\ RLock("stop")
  /\ pc' = [pc EXCEPT !["stop"] = "close"]
  /\ UNCHANGED <<shared, timer, lc, monitors, err, world, host, crashed, obs, hist>>

\* StopClose with the error of Close raised (a panic) instead of logged.
StopClose_Raise ==
  /\ crashed = "no"
  /\ pc["stop"] = "close"
  /\ IF conn # NilConn /\ conn \in closed
     THEN crashed' = "closeerr" /\ UNCHANGED <<closed, pc>>
     ELSE /\ closed' = IF conn # NilConn THEN closed \cup {conn} ELSE closed
          /\ pc' = [pc EXCEPT !["stop"] = "runlock"]
          /\ UNCHANGED crashed
  /\ UNCHANGED <<shared, connMtx, timer, lc, monitors, err, opened, broken, peerUp, host, obs, hist>>

\* Lines 148-152: if sc.conn != nil, sc.conn.Close(); the error Close gives
\* on a connection already closed is logged, and nothing else happens.
StopClose ==
  /\ crashed = "no"
  /\ pc["stop"] = "close"
  /\ closed' = IF conn # NilConn THEN closed \cup {conn} ELSE closed
  /\ pc' = [pc EXCEPT !["stop"] = "runlock"]
  /\ UNCHANGED <<shared, connMtx, timer, lc, monitors, err, opened, broken, peerUp, host, crashed, obs,
                 hist>>

\* Lines 147 and 153: the deferred RUnlock, and OnStop returns.
StopReturn ==
  /\ crashed = "no"
  /\ pc["stop"] = "runlock"
  /\ RUnlock("stop")
  /\ pc' = [pc EXCEPT !["stop"] = "done"]
  /\ UNCHANGED <<shared, timer, lc, monitors, err, world, host, crashed, obs, hist>>

----------------------------------------------------------------------------
\* A foreground caller reading the pair under the read lock (the discipline
\* the comment of lines 41-42 states for sc.conn)

ReaderRLock ==
  /\ crashed = "no"
  /\ pc["reader"] = "idle"
  /\ lifecycle = "Running"
  /\ CanRLock
  /\ RLock("reader")
  /\ pc' = [pc EXCEPT !["reader"] = "readconn"]
  /\ UNCHANGED <<shared, timer, lc, monitors, err, world, host, crashed, obs, hist>>

ReaderReadConn ==
  /\ crashed = "no"
  /\ pc["reader"] = "readconn"
  /\ obs' = [obs EXCEPT !.conn = conn]
  /\ pc' = [pc EXCEPT !["reader"] = "readclient"]
  /\ UNCHANGED <<shared, connMtx, timer, lc, monitors, err, world, host, crashed, hist>>

ReaderReadClient ==
  /\ crashed = "no"
  /\ pc["reader"] = "readclient"
  /\ obs' = [obs EXCEPT !.client = RemoteSignerClient]
  /\ pc' = [pc EXCEPT !["reader"] = "runlock"]
  /\ UNCHANGED <<shared, connMtx, timer, lc, monitors, err, world, host, crashed, hist>>

\* The reader releases the lock and returns; its locals are gone.
ReaderRUnlock ==
  /\ crashed = "no"
  /\ pc["reader"] = "runlock"
  /\ RUnlock("reader")
  /\ pc' = [pc EXCEPT !["reader"] = "idle"]
  /\ obs' = [conn |-> NilConn, client |-> NilClient]
  /\ UNCHANGED <<shared, timer, lc, monitors, err, world, host, crashed, hist>>

----------------------------------------------------------------------------
\* The signer process at the other end of the socket

\* The signer dies: every connection to it is broken.
PeerDown ==
  /\ crashed = "no"
  /\ peerUp
  /\ peerUp' = FALSE
  /\ broken' = opened
  /\ UNCHANGED <<shared, connMtx, timer, pc, lc, monitors, err, opened, closed, host, crashed, obs, hist>>

\* A signer listens on the address again.
PeerUp ==
  /\ crashed = "no"
  /\ ~peerUp
  /\ peerUp' = TRUE
  /\ UNCHANGED <<shared, connMtx, timer, pc, lc, monitors, err, opened, closed, broken, host, crashed,
                 obs, hist>>

----------------------------------------------------------------------------

Next ==
  \/ \E p \in {"start", "mon"} : DialOk(p)
  \/ \E p \in {"start", "mon"} : DialFail(p)
  \/ \E p \in {"start", "mon"} : ConnLockReq(p)
  \/ \E p \in {"start", "mon"} : ConnLockAcq(p)
  \/ \E p \in {"start", "mon"} : ConnAssign(p)
  \/ \E p \in {"start", "mon"} : ConnUnlock(p)
  \/ StartCall
  \/ StartRLock
  \/ StartHandshake
  \/ StartLaunch
  \/ StartReturn
  \/ Tick
  \/ MonTick
  \/ MonCancel
  \/ MonPingNil
  \/ MonPingOk
  \/ MonPingUnexpected
  \/ MonPingTransient
  \/ MonRLock
  \/ MonHandshake
  \/ MonRUnlock
  \/ MonRLock2
  \/ MonClose
  \/ MonRUnlock2
  \/ StopCall
  \/ StopAgain
  \/ StopSignal
  \/ StopRLock
  \/ StopClose
  \/ StopReturn
  \/ ReaderRLock
  \/ ReaderReadConn
  \/ ReaderReadClient
  \/ ReaderRUnlock
  \/ PeerDown
  \/ PeerUp

Spec == Init /\ [][Next]_vars

StartNext ==
  \/ DialOk("start") \/ DialFail("start") \/ ConnLockReq("start") \/ ConnLockAcq("start")
  \/ ConnAssign("start") \/ ConnUnlock("start")
  \/ StartRLock \/ StartHandshake \/ StartLaunch \/ StartReturn

MonNext ==
  \/ DialOk("mon") \/ DialFail("mon") \/ ConnLockReq("mon") \/ ConnLockAcq("mon")
  \/ ConnAssign("mon") \/ ConnUnlock("mon")
  \/ MonTick \/ MonCancel \/ MonPingNil \/ MonPingOk \/ MonPingUnexpected \/ MonPingTransient
  \/ MonRLock \/ MonHandshake \/ MonRUnlock \/ MonRLock2 \/ MonClose \/ MonRUnlock2

StopNext == StopSignal \/ StopRLock \/ StopClose \/ StopReturn

ReaderNext == ReaderReadConn \/ ReaderReadClient \/ ReaderRUnlock

\* The Go scheduler runs every goroutine that can take a step: a call that
\* has begun (OnStart, OnStop, a read under the lock) and the goroutine of
\* OnStart each go on while they can.
FairSpec ==
  /\ Spec
  /\ WF_vars(StartNext)
  /\ WF_vars(MonNext)
  /\ WF_vars(StopNext)
  /\ WF_vars(ReaderNext)

\* FairSpec with a ticker that fires while it runs.
LiveSpec == FairSpec /\ WF_vars(Tick)

----------------------------------------------------------------------------
\* Properties

\* The goroutine is back at the select after a tick that ended as res.
TickEnded(res) == pc["mon"] = "select" /\ tickRes = res

\* The goroutine takes the next tick that arrives.
HandlesNextTick == (tickC /\ crashed = "no") => ENABLED MonTick

\* C1: a reader that has read both sc.conn and sc.RemoteSignerClient under
\* the read lock holds a whole pair: the client it read is the client over
\* the connection it read, never the client of another connection.
C1_ReaderSeesWholePair ==
  pc["reader"] = "runlock" => obs.client = ClientOf(obs.conn)

\* C2: after a tick whose ping failed with a transient error and whose
\* connect failed, sc.conn and sc.RemoteSignerClient are what they were when
\* the tick was received, the goroutine closed nothing on the way, and it
\* is at the select again, taking the next tick.
C2_DialFailurePreservesPair ==
  /\ [](TickEnded("dialfail") =>
          /\ conn = tickConn
          /\ RemoteSignerClient = tickClient
          /\ RemoteSignerClient # NilClient
          /\ HandlesNextTick)
  /\ [][(pc["mon"] \in {"select", "ping", "dial"} /\ pc'["mon"] # pc["mon"])
          => closed' = closed]_vars

C2_Witness ==
  /\ TickEnded("dialfail")
  /\ conn # NilConn
  /\ RemoteSignerClient = ClientOf(conn)
  /\ conn \notin closed

\* C3: after a tick whose ping failed with a transient error, whose connect
\* succeeded and whose handshake failed, the dialled connection is closed
\* and sc.conn and sc.RemoteSignerClient are the pair of before the tick.
C3_HandshakeFailurePreservesPair ==
  TickEnded("hsfail") =>
    /\ lc["mon"] \in closed
    /\ conn = tickConn
    /\ RemoteSignerClient = tickClient

\* C4: once Start has returned nil, sc.RemoteSignerClient is never nil.
C4_ClientNeverNilAfterStart ==
  startRet = "ok" => RemoteSignerClient # NilClient

\* C5: a ping answered with ErrUnexpectedResponse ends the goroutine at that
\* tick; once it has ended it takes no further step, dials nothing and the
\* pair is never written again, however many ticks arrive; the service
\* leaves Running only by a call to Stop.
C5_FatalHaltsMonitoring ==
  /\ [](tickRes = "violation" => pc["mon"] = "exited")
  /\ [][pc["mon"] = "exited" =>
          /\ pc'["mon"] = "exited"
          /\ conn' = conn
          /\ RemoteSignerClient' = RemoteSignerClient
          /\ opened' = opened
          /\ lc' = lc]_vars
  /\ [][(lifecycle = "Running" /\ lifecycle' # "Running") => stops' = stops + 1]_vars

\* The goroutine has ended on a protocol violation, the ticker still runs
\* and a later tick waits in the channel, the service is Running.
C5_Witness ==
  /\ tickRes = "violation"
  /\ pc["mon"] = "exited"
  /\ pingTicker = "running"
  /\ tickC
  /\ lifecycle = "Running"

\* C6: after a tick whose ping failed with a transient error and whose
\* connect and handshake succeeded, sc.conn is the connection dialled in
\* that tick and differs from the one before, sc.RemoteSignerClient is the
\* client over the new connection and differs from the one before, and
\* the goroutine is at the select again, taking the next tick.
C6_TransientTriggersReconnect ==
  TickEnded("reconnected") =>
    /\ conn # tickConn
    /\ conn = lc["mon"]
    /\ RemoteSignerClient # tickClient
    /\ RemoteSignerClient = ClientOf(conn)
    /\ HandlesNextTick

C6_Witness ==
  /\ TickEnded("reconnected")
  /\ tickConn # NilConn
  /\ tickClient = ClientOf(tickConn)
  /\ tickC

\* C7: when Start has returned an error (of connect or of the handshake),
\* no goroutine runs and sc.cancelPing and sc.pingTicker are unset; the
\* goroutine exists only when connect and the handshake of Start succeeded.
C7_FailedStartLaunchesNoMonitor ==
  /\ startRet = "err" =>
       /\ err["start"] \in {"dial", "handshake"}
       /\ pc["mon"] = "none"
       /\ cancelPing = "nil"
       /\ pingTicker = "nil"
       /\ ~tickC
  /\ pc["mon"] # "none" =>
       /\ err["start"] = "nil"
       /\ conn # NilConn
       /\ startRet # "err"

\* Start has returned the error of the handshake, after a successful connect.
C7_Witness ==
  /\ startRet = "err"
  /\ err["start"] = "handshake"
  /\ conn # NilConn

\* C8: after close(sc.cancelPing) the goroutine receives at most one more
\* tick, and once it has received the cancel signal the ticker is stopped
\* and it takes no further step.
C8_CancelHonoredWithinOneTick ==
  /\ ticksAfterCancel <= 1
  /\ (pc["mon"] = "exited" /\ tickRes # "violation") => pingTicker = "stopped"

\* C9: Stop never panics, whether on close(sc.cancelPing) or on the error of
\* closing a closed connection; after two calls to Stop the channel has been
\* closed once and OnStop has run once, to its end.
C9_StopTwiceSafe ==
  /\ crashed \notin {"closeclosed", "closeerr"}
  /\ stops = 2 =>
       /\ lifecycle = "Stopped"
       /\ cancelPing = "closed"
       /\ pc["stop"] = "done"
       /\ "stop" \notin connMtx.r

\* Stop was called twice, on a connection the goroutine had already closed.
C9_Witness ==
  /\ stops = 2
  /\ conn \in closed
  /\ tickRes = "hsfail"
  /\ crashed = "no"

C11_AtMostOneMonitor ==
  /\ [](/\ monitors <= 1
        /\ (pc["mon"] = "none") = (monitors = 0)
        /\ startRet = "ok" => monitors = 1
        /\ startRet = "err" => monitors = 0)
  /\ [][pc["mon"] = "exited" => (pc'["mon"] = "exited" /\ monitors' = monitors)]_vars

\* The goroutine has reconnected and then ended; it was the only one.
C11_Witness ==
  /\ monitors = 1
  /\ pc["mon"] = "exited"
  /\ Cardinality(opened) >= 2
  /\ conn = 2

\* C12: a process at a statement that writes sc.conn (line 168) or
\* sc.RemoteSignerClient (lines 77 and 110) holds connMtx exclusively.
C12_WritesUnderWriteLock ==
  \A p \in {"start", "mon"} : pc[p] \in {"assign", "handshake"} => connMtx.w = p

\* Start or the goroutine is inside a dial, a handshake or a ping.
InIO == pc["start"] \in {"dial", "handshake"} \/ pc["mon"] \in {"ping", "dial", "handshake"}

\* C13: connMtx is held exclusively only at the assignment of line 168 and
\* its unlock; while Start or the goroutine is in a dial, a handshake or a
\* ping, RLock is granted at once, so a reader that asks for it gets it.
C13_ReadersNotBlockedByIO ==
  /\ \A p \in {"start", "mon"} : connMtx.w = p => pc[p] \in {"assign", "unlock"}
  /\ InIO => CanRLock
  /\ (InIO /\ lifecycle = "Running" /\ pc["reader"] = "idle" /\ crashed = "no")
       => ENABLED ReaderRLock

\* A reader holds the read lock while the goroutine is in the handshake.
C13_Witness ==
  /\ pc["mon"] = "handshake"
  /\ "reader" \in connMtx.r
  /\ "mon" \in connMtx.r

\* C14: a reader is never at its read of sc.RemoteSignerClient, under the
\* read lock, while the goroutine is at its write of it (line 110).
C14_NoReadConcurrentWithWrite ==
  ~(pc["reader"] = "readclient" /\ "reader" \in connMtx.r /\ pc["mon"] = "handshake")

\* C16: the goroutine never panics, and it has ended only on the cancel
\* signal (which stops the ticker) or on a protocol violation.
C16_MonitorEndsOnlyByCancelOrViolation ==
  /\ crashed # "nilclient"
  /\ pc["mon"] = "exited" => (tickRes = "violation" \/ pingTicker = "stopped")

\* The connections dialled and on their way into sc.conn (lines 161-168).
InFlight == {lc[p] : p \in {q \in {"start", "mon"} : pc[q] \in {"lock", "lockwait", "assign"}}}

\* C17: every dialled connection that is not sc.conn (nor on its way into
\* it) has been closed, so at most one connection is open.
C17_ReplacedConnectionsClosed ==
  \A c \in opened : (c # conn /\ c \notin InFlight) => c \in closed

\* C18: when Start has returned an error, every connection it dialled has
\* been closed.
C18_FailedStartLeavesNothingOpen ==
  startRet = "err" => opened \subseteq closed

\* C20: when the goroutine has ended, the ticker has been stopped.
C20_TickerStoppedOnExit ==
  pc["mon"] = "exited" => pingTicker = "stopped"

\* sc.conn and sc.RemoteSignerClient are a working pair: an open connection
\* to the live peer and the client over it.
Recovered == conn # NilConn /\ Healthy(conn) /\ RemoteSignerClient = ClientOf(conn)

\* The handshake of line 110 fails in this step.
MonHandshakeFails == MonHandshake /\ err'["mon"] = "handshake"

\* C15: with no Stop and no protocol violation, if the peer is reachable
\* from some point on for good (the goroutine's dials and handshakes fail no
\* more, and the peer still accepts connections), then after a successful
\* Start the pair is, again and again, a working pair.
C15_SelfHealing ==
  ( /\ [](stops = 0)
    /\ [](tickRes # "violation")
    /\ [](Cardinality(opened) < MaxConns)
    /\ <>[]peerUp
    /\ <>[][~DialFail("mon")]_vars
    /\ <>[][~MonHandshakeFails]_vars )
  => ((startRet = "ok") ~> Recovered)

\* Process p holds connMtx, for reading or for writing.
Holds(p) == p \in connMtx.r \/ connMtx.w = p

\* Process p is at a statement between an acquisition of connMtx and its release.
InSection(p) ==
  \/ p = "start" /\ pc[p] \in {"assign", "unlock", "handshake", "launch", "return"}
  \/ p = "mon" /\ pc[p] \in {"assign", "unlock", "handshake", "runlock", "close", "runlock2"}
  \/ p = "stop" /\ pc[p] \in {"close", "runlock"}
  \/ p = "reader" /\ pc[p] \in {"readconn", "readclient", "runlock"}

\* Process p is blocked in Lock or RLock, or OnStop is on its way to RLock.
Acquiring(p) == pc[p] \in {"lock", "lockwait", "rlock", "rlock2"} \/ (p = "stop" /\ pc[p] = "signal")

\* C19: connMtx never has a writer together with readers; a process holds
\* it only inside its locked section, so every return path has released it;
\* while the process lives, whoever waits for connMtx or holds it is later
\* past its release (every Lock and RLock is granted, every holder
\* releases), and so OnStop, once called, returns.
C19_LockDeadlockFree ==
  /\ [](connMtx.w # "none" => connMtx.r = {})
  /\ [](\A p \in Procs : Holds(p) => InSection(p))
  /\ [](pc["stop"] = "done" => ~Holds("stop"))
  /\ \A p \in Procs :
       (Acquiring(p) \/ Holds(p)) ~> ((~Acquiring(p) /\ ~Holds(p)) \/ crashed # "no")

\* OnStop waits for the read lock behind the goroutine, which waits for
\* the write lock behind a reader.
C19_Witness ==
  /\ pc["stop"] = "rlock"
  /\ connMtx.ww = "mon"
  /\ "reader" \in connMtx.r

====
